---- MODULE Spec2Model ----
(***************************************************************************)
(* A model of the Qwen Code Proxy supervisor.                              *)
(*                                                                         *)
(*   auth.py  TokenManager.get_api_key : a credential cache keyed on the   *)
(*            modification time of the credential file.                    *)
(*   main.py  ProxyRunner : run_with_retry / run_proxy / _signal_handler,  *)
(*            the supervised child process and its shutdown protocol.      *)
(*                                                                         *)
(* Time is discrete.  Every statement of the program takes no time; time   *)
(* passes only while the primary thread is blocked (waiting for the child, *)
(* in a grace wait, or in the retry sleep).                                *)
(***************************************************************************)
EXTENDS Integers, Sequences, FiniteSets, TLC

\* ------------------------------------------------------------------ bounds
MaxMtime == 2          \* modification times of the credential file: 1..MaxMtime
MaxRetriesBound == 1   \* settings.max_retries ranges over 0..MaxRetriesBound
MaxSignals == 2        \* shutdown signals delivered in one run
RetryDelay == 1        \* settings.retry_delay, in time units
NumThreads == 2        \* threads calling get_api_key concurrently

\* ------------------------------------------------------- program constants
GraceTimeout == 5      \* wait(timeout=5)
SIGTERM == 15          \* Popen.terminate()
SIGKILL == 9           \* Popen.kill()

\* ------------------------------------------------------------- credentials
\* Python's None.  Tokens are sequences of characters, so None is kept a
\* sequence too, distinct from every token string.
None == <<"None">>

\* Strings that the access_token field may hold.
TokenStrings == { <<>>, <<" ">>, <<"a">>, <<"b">>, <<"a", " ">> }

\* What the credential file may contain: malformed JSON, JSON that is not an
\* object, an object without the field, with a null or numeric field, or with
\* a string field.
Contents ==
    { [json |-> "malformed", ftype |-> "absent", str |-> <<>>],
      [json |-> "array",     ftype |-> "absent", str |-> <<>>],
      [json |-> "object",    ftype |-> "absent", str |-> <<>>],
      [json |-> "object",    ftype |-> "number", str |-> <<>>] }
    \cup { [json |-> "object", ftype |-> "string", str |-> s] : s \in TokenStrings }

Mtimes == 1..MaxMtime

\* The file as the program sees it.  An absent file has no content; the
\* other fields then hold fixed placeholders.
AbsentFile ==
    [exists |-> FALSE, readable |-> TRUE, mtime |-> 1,
     content |-> [json |-> "malformed", ftype |-> "absent", str |-> <<>>]]

Files ==
    {AbsentFile} \cup
    [exists : {TRUE}, readable : BOOLEAN, mtime : Mtimes, content : Contents]

\* The files a run of the supervisor is given: run_proxy only tells a token
\* from no token, so one unusable content and two tokens are enough.
RunContents ==
    { [json |-> "malformed", ftype |-> "absent", str |-> <<>>],
      [json |-> "object", ftype |-> "string", str |-> <<"a">>],
      [json |-> "object", ftype |-> "string", str |-> <<"b">>] }

RunFiles ==
    {AbsentFile} \cup
    [exists : {TRUE}, readable : {TRUE}, mtime : Mtimes, content : RunContents]

\* str.strip(): drop leading and trailing whitespace.
RECURSIVE LStrip(_)
LStrip(s) == IF s # <<>> /\ Head(s) = " " THEN LStrip(Tail(s)) ELSE s

RECURSIVE RStrip(_)
RStrip(s) ==
    IF s # <<>> /\ s[Len(s)] = " " THEN RStrip(SubSeq(s, 1, Len(s) - 1)) ELSE s

Strip(s) == RStrip(LStrip(s))

\* json.load(f) followed by creds.get("access_token"): does it raise?
\* Malformed JSON raises JSONDecodeError; a JSON value that is not an object
\* has no .get and raises AttributeError.  Both handlers return None.
LoadRaises(content) == content.json # "object"

\* `if not token`: None, the empty string and the number 0 are falsy.
Falsy(content) ==
    \/ content.ftype = "absent"
    \/ content.ftype = "number"
    \/ content.ftype = "string" /\ content.str = <<>>

\* `not isinstance(token, str) or len(token.strip()) == 0`
BadFormat(content) ==
    \/ content.ftype # "string"
    \/ Len(Strip(content.str)) = 0

\* The cache test of get_api_key.
CacheHitStrict(tok, lmt, f) == tok # None /\ f.mtime < lmt
CacheHitEqual(tok, lmt, f) == tok # None /\ f.mtime = lmt
CacheHit(tok, lmt, f) == tok # None /\ f.mtime <= lmt

\* The token the read path yields from a readable file, or None.
ReadTokenUnstripped(content) ==
    IF LoadRaises(content) \/ Falsy(content) THEN None ELSE content.str
ReadToken(content) ==
    IF LoadRaises(content) THEN None
    ELSE IF Falsy(content) THEN None
    ELSE IF BadFormat(content) THEN None
    ELSE content.str

\* One whole call of TokenManager.get_api_key on file f with the cache
\* (tok, lmt): the value returned, the cache afterwards, and whether the
\* content was parsed (json.load ran).
get_api_key_stale(f, tok, lmt) ==
    IF tok # None
    THEN [ret |-> tok, token |-> tok, mtime |-> lmt, parsed |-> FALSE]
    ELSE IF ~f.exists \/ ~f.readable \/ ReadToken(f.content) = None
    THEN [ret |-> None, token |-> tok, mtime |-> lmt, parsed |-> f.exists /\ f.readable]
    ELSE [ret |-> ReadToken(f.content), token |-> ReadToken(f.content),
          mtime |-> f.mtime, parsed |-> TRUE]
get_api_key_clears(f, tok, lmt) ==
    IF ~f.exists
    THEN [ret |-> None, token |-> tok, mtime |-> lmt, parsed |-> FALSE]
    ELSE IF CacheHit(tok, lmt, f)
    THEN [ret |-> tok, token |-> tok, mtime |-> lmt, parsed |-> FALSE]
    ELSE IF ~f.readable
    THEN [ret |-> None, token |-> None, mtime |-> f.mtime, parsed |-> FALSE]
    ELSE [ret |-> ReadToken(f.content), token |-> ReadToken(f.content),
          mtime |-> f.mtime, parsed |-> TRUE]
get_api_key(f, tok, lmt) ==
    IF ~f.exists
    THEN [ret |-> None, token |-> tok, mtime |-> lmt, parsed |-> FALSE]
    ELSE IF CacheHit(tok, lmt, f)
    THEN [ret |-> tok, token |-> tok, mtime |-> lmt, parsed |-> FALSE]
    ELSE IF ~f.readable
    THEN [ret |-> None, token |-> tok, mtime |-> lmt, parsed |-> FALSE]
    ELSE IF ReadToken(f.content) = None
    THEN [ret |-> None, token |-> tok, mtime |-> lmt, parsed |-> TRUE]
    ELSE [ret |-> ReadToken(f.content), token |-> ReadToken(f.content),
          mtime |-> f.mtime, parsed |-> TRUE]

\* ------------------------------------------------------------------- state
VARIABLES
    \* credential file and TokenManager
    file,               \* the credential file (environment)
    cachedToken,        \* TokenManager._cached_token
    lastModifiedTime,   \* TokenManager._last_modified_time
    \* observations of a direct caller of get_api_key
    calls,              \* calls made so far, counted up to 2
    result,             \* value returned by the last call
    parsed,             \* did the last call parse the file content
    prevResult,         \* the same for the call before it
    prevParsed,
    modSince,           \* was the file modified since the last call
    modBetween,         \* was it modified between the last two calls
    \* threads calling get_api_key concurrently
    thread,             \* per thread: position in get_api_key and its locals
    lock,               \* threads inside `with self._cache_lock`
    writer,             \* <<thread that last wrote _cached_token,
                        \*   thread that last wrote _last_modified_time>>
    lastExit,           \* the way the most recent call returned
    ver,                \* versions of the file, told apart by modification
                        \* time: which one the cached token and each thread's
                        \* local token were parsed from, and what each call
                        \* in progress has seen of the file
    \* ProxyRunner
    max_retries,        \* settings.max_retries
    attempt,            \* loop variable of run_with_retry
    stack,              \* control: stack[1] is the primary thread, the rest
                        \* are running invocations of _signal_handler
    installed,          \* signals routed to _signal_handler
    api_key,            \* local variable of run_proxy
    process,            \* ProxyRunner.process: NoProc or the child's index
    running,            \* ProxyRunner.running
    shutdown_requested, \* ProxyRunner.shutdown_requested
    exc,                \* <<>> or <<code>>: the SystemExit being propagated
    \* child processes, indexed by the attempt that spawned them
    childState,         \* "none" | "running" | "dying" | "exited"
    childCode,          \* return code once exited
    childEnv,           \* token placed in the child's environment
    termCount,          \* SIGTERMs sent to the child by the supervisor
    killCount,          \* SIGKILLs sent to the child by the supervisor
    termAge,            \* time the child has lived on since the last
                        \* terminate(), up to GraceTimeout; -1 if it was not
                        \* asked to terminate or has exited
    \* observations of the run
    outcome,            \* per attempt: "none" | "nokey" | "nospawn" | "child"
    keys,               \* per attempt: what get_api_key returned
    spawnCount,         \* Popen calls that started a child
    sleepCount,         \* retry sleeps started
    sigCount,           \* shutdown signals delivered
    sinceSig,           \* time since the first signal that found the primary
                        \* thread blocked on a running child; -1 if none yet
    atSig,              \* <<spawnCount, sleepCount>> when it was delivered
    sigsAfterMid,       \* signals delivered after that one
    sigAtSpawn,         \* was a signal handled with the primary thread just
                        \* before or just after subprocess.Popen
    everPresent         \* has the credential file existed during the run

authVars == <<file, cachedToken, lastModifiedTime>>
threadVars == <<thread, lock, writer, lastExit, ver>>
\* Everything about the callers of get_api_key other than the supervisor.
callerVars == <<calls, result, parsed, prevResult, prevParsed, modSince, modBetween,
                threadVars>>
runnerVars == <<max_retries, attempt, stack, installed, api_key, process, running,
                shutdown_requested, exc>>
childVars == <<childState, childCode, childEnv, termCount, killCount, termAge>>
obsVars == <<outcome, keys, spawnCount, sleepCount, sigCount, sinceSig,
             atSig, sigsAfterMid,
                   sigAtSpawn, everPresent>>
vars == <<authVars, callerVars, runnerVars, childVars, obsVars>>

NoProc == 0 - 1
Attempts == 0..MaxRetriesBound
Threads == 1..NumThreads
NoThread == 0

\* ------------------------------------------------- initial state (auth.py)
\* TokenManager.__init__: nothing cached, modification time 0.
InitTokenManager ==
    /\ cachedToken = None
    /\ lastModifiedTime = 0

InitCaller ==
    /\ calls = 0
    /\ result = None
    /\ parsed = FALSE
    /\ prevResult = None
    /\ prevParsed = FALSE
    /\ modSince = FALSE
    /\ modBetween = FALSE

\* No concurrent call has started; the cache fields hold what __init__ wrote.
IdleThread == [pc |-> "idle", mtime |-> 0, token |-> None]

\* No version of the file has been written, read or cached.
NoVersions ==
    [clock |-> 0, valid |-> 0, cached |-> 0,
     local |-> [t \in Threads |-> 0],
     start |-> [t \in Threads |-> 0],
     bad |-> [t \in Threads |-> FALSE]]

InitThreads ==
    /\ thread = [t \in Threads |-> IdleThread]
    /\ lock = {}
    /\ writer = <<NoThread, NoThread>>
    /\ lastExit = "none"
    /\ ver = NoVersions

\* ProxyRunner.__init__, before run_with_retry starts.
InitRunner ==
    /\ attempt = 0
    /\ stack = << [pc |-> "loop", timer |-> 0] >>
    /\ installed = {}
    /\ api_key = None
    /\ process = NoProc
    /\ running = FALSE
    /\ shutdown_requested = FALSE
    /\ exc = <<>>

InitChildren ==
    /\ childState = [a \in Attempts |-> "none"]
    /\ childCode = [a \in Attempts |-> 0]
    /\ childEnv = [a \in Attempts |-> None]
    /\ termCount = [a \in Attempts |-> 0]
    /\ killCount = [a \in Attempts |-> 0]
    /\ termAge = [a \in Attempts |-> 0 - 1]

InitObs ==
    /\ outcome = [a \in Attempts |-> "none"]
    /\ keys = [a \in Attempts |-> None]
    /\ spawnCount = 0
    /\ sleepCount = 0
    /\ sigCount = 0
    /\ sinceSig = 0 - 1
    /\ atSig = <<>>
    /\ sigsAfterMid = 0
    /\ sigAtSpawn = FALSE
    /\ everPresent = file.exists

\* ------------------------------------------------- the credential file
\* The file is written by other programs.  Any write may set any
\* modification time (a restored or copied file keeps an old one).
WriteFile(files) ==
    \E f \in files :
        /\ f.exists
        /\ f # file
        /\ file' = f

DeleteFile ==
    /\ file.exists
    /\ file' = AbsentFile

\* A change of the file, as the program can observe it.
FileChange(files) ==
    /\ \/ WriteFile(files)
       \/ DeleteFile
    /\ everPresent' = (everPresent \/ file'.exists)
    /\ UNCHANGED <<cachedToken, lastModifiedTime>>

\* --------------------------------------- a direct caller of get_api_key
CallGetApiKey ==
    LET r == get_api_key(file, cachedToken, lastModifiedTime) IN
    /\ cachedToken' = r.token
    /\ lastModifiedTime' = r.mtime
    /\ prevResult' = result
    /\ prevParsed' = parsed
    /\ result' = r.ret
    /\ parsed' = r.parsed
    /\ calls' = IF calls < 2 THEN calls + 1 ELSE 2
    /\ modBetween' = modSince
    /\ modSince' = FALSE
    /\ UNCHANGED file

InitAuth ==
    /\ file \in Files
    /\ InitTokenManager
    /\ InitCaller
    /\ InitThreads
    /\ max_retries = 0
    /\ InitRunner
    /\ InitChildren
    /\ InitObs

NextAuth ==
    \/ /\ FileChange(Files)
       /\ modSince' = TRUE
       /\ UNCHANGED <<calls, result, parsed, prevResult, prevParsed, modBetween>>
       /\ UNCHANGED <<threadVars, runnerVars, childVars, outcome, keys, spawnCount,
                      sleepCount, sigCount, sinceSig, atSig, sigsAfterMid,
                   sigAtSpawn>>
    \/ CallGetApiKey /\ UNCHANGED <<threadVars, runnerVars, childVars, obsVars>>

SpecAuth == InitAuth /\ [][NextAuth]_vars

\* ------------------------------- concurrent callers of get_api_key (auth.py)
\* TokenManager.get_api_key statement by statement, run by several threads
\* on the one global TokenManager.  The file may change between any two
\* statements.  Statements that touch nothing shared are taken together with
\* the shared access before them.

\* The files given to the concurrent callers: a missing file, one that does
\* not parse, one without a usable token and one with a token.  Refreshes
\* are told apart by their modification times and by the thread making them.
ThreadContents ==
    { [json |-> "malformed", ftype |-> "absent", str |-> <<>>],
      [json |-> "object", ftype |-> "string", str |-> <<>>],
      [json |-> "object", ftype |-> "string", str |-> <<"a">>] }

ThreadFiles ==
    {AbsentFile} \cup
    [exists : {TRUE}, readable : {TRUE}, mtime : Mtimes, content : ThreadContents]

\* The statements inside `with self._cache_lock`.
Critical == {"stat", "check", "open", "set_token", "set_mtime"}

\* threading.Lock: acquire blocks while another thread holds the lock.
CanAcquireAlways == TRUE
CanAcquire == lock = {}

\* Leaving the `with` block, by return or by exception, releases the lock.
ReleaseOnlyOnReturn(t, how) == IF how = "error" THEN lock ELSE lock \ {t}
Release(t, how) == lock \ {t}

\* A return from inside the `with` block (lines 85, 94, 99, 106, 108-116).
ReturnLocked(t, how) ==
    /\ thread' = [thread EXCEPT ![t] = IdleThread]
    /\ lock' = Release(t, how)
    /\ lastExit' = how

\* Lines 71-73: the existence test, made before the lock is taken.
CheckExists(t) ==
    /\ thread[t].pc = "idle"
    /\ IF file.exists
       THEN /\ thread' = [thread EXCEPT ![t].pc = "acquire"]
            /\ UNCHANGED lastExit
       ELSE /\ lastExit' = "nofile"
            /\ UNCHANGED thread
    /\ UNCHANGED <<authVars, lock, writer>>

\* Line 76: with self._cache_lock.
Acquire(t) ==
    /\ thread[t].pc = "acquire"
    /\ CanAcquire
    /\ lock' = lock \cup {t}
    /\ thread' = [thread EXCEPT ![t].pc = "stat"]
    /\ UNCHANGED <<authVars, writer, lastExit>>

\* Line 79: oauth_file.stat().st_mtime; a file deleted since line 71 raises
\* FileNotFoundError, which line 114 turns into None.
Stat(t) ==
    /\ thread[t].pc = "stat"
    /\ IF file.exists
       THEN /\ thread' = [thread EXCEPT ![t].pc = "check", ![t].mtime = file.mtime]
            /\ UNCHANGED <<lock, lastExit>>
       ELSE ReturnLocked(t, "error")
    /\ UNCHANGED <<authVars, writer>>

\* Lines 80-85: the cache test, reading both cached fields.
Check(t) ==
    /\ thread[t].pc = "check"
    /\ IF cachedToken # None /\ thread[t].mtime <= lastModifiedTime
       THEN ReturnLocked(t, "hit")
       ELSE /\ thread' = [thread EXCEPT ![t].pc = "open"]
            /\ UNCHANGED <<lock, lastExit>>
    /\ UNCHANGED <<authVars, writer>>

\* Lines 88-99 and 108-116: open, json.load, creds.get and the two checks of
\* the token.
Open(t) ==
    /\ thread[t].pc = "open"
    /\ IF ~file.exists \/ ~file.readable \/ LoadRaises(file.content)
       THEN ReturnLocked(t, "error")
       ELSE IF ReadToken(file.content) = None
       THEN ReturnLocked(t, "invalid")
       ELSE /\ thread' = [thread EXCEPT ![t].pc = "set_token",
                                        ![t].token = ReadToken(file.content)]
            /\ UNCHANGED <<lock, lastExit>>
    /\ UNCHANGED <<authVars, writer>>

\* Line 102: self._cached_token = token.
SetToken(t) ==
    /\ thread[t].pc = "set_token"
    /\ cachedToken' = thread[t].token
    /\ writer' = <<t, writer[2]>>
    /\ thread' = [thread EXCEPT ![t].pc = "set_mtime"]
    /\ UNCHANGED <<file, lastModifiedTime, lock, lastExit>>

\* Lines 103-106: self._last_modified_time = current_modified_time; return.
\* current_modified_time: the value line 79 took, before the file was opened.
SampledMtimeLate(t) == file.mtime
SampledMtime(t) == thread[t].mtime

SetMtime(t) ==
    /\ thread[t].pc = "set_mtime"
    /\ lastModifiedTime' = SampledMtime(t)
    /\ writer' = <<writer[1], t>>
    /\ ReturnLocked(t, "loaded")
    /\ UNCHANGED <<file, cachedToken>>

restOfState == <<calls, result, parsed, prevResult, prevParsed, modSince, modBetween,
                 runnerVars, childVars, outcome, keys, spawnCount, sleepCount,
                 sigCount, sinceSig, atSig, sigsAfterMid,
                   sigAtSpawn>>

InitThreaded ==
    /\ file \in ThreadFiles
    /\ InitTokenManager
    /\ InitCaller
    /\ InitThreads
    /\ max_retries = 0
    /\ InitRunner
    /\ InitChildren
    /\ InitObs

\* The steps of the call that thread t has in progress.
CallStep(t) ==
    /\ \/ Acquire(t) \/ Stat(t) \/ Check(t) \/ Open(t) \/ SetToken(t) \/ SetMtime(t)
    /\ UNCHANGED <<restOfState, everPresent, ver>>

NextThreaded ==
    \/ \E t \in Threads : CheckExists(t) /\ UNCHANGED <<restOfState, everPresent, ver>>
    \/ \E t \in Threads : Acquire(t) /\ UNCHANGED <<restOfState, everPresent, ver>>
    \/ \E t \in Threads : Stat(t) /\ UNCHANGED <<restOfState, everPresent, ver>>
    \/ \E t \in Threads : Check(t) /\ UNCHANGED <<restOfState, everPresent, ver>>
    \/ \E t \in Threads : Open(t) /\ UNCHANGED <<restOfState, everPresent, ver>>
    \/ \E t \in Threads : SetToken(t) /\ UNCHANGED <<restOfState, everPresent, ver>>
    \/ \E t \in Threads : SetMtime(t) /\ UNCHANGED <<restOfState, everPresent, ver>>
    \/ FileChange(ThreadFiles) /\ UNCHANGED <<restOfState, threadVars>>

\* Every thread that is in a call keeps being scheduled, and a thread waiting
\* for a lock that is released again and again obtains it.
SpecThreaded ==
    /\ InitThreaded
    /\ [][NextThreaded]_vars
    /\ \A t \in Threads : SF_vars(CallStep(t))

\* ------------------- get_api_key against a concurrent writer (auth.py)
\* The same statements, run while another program rewrites the credential
\* file.  Every write replaces the content in one step and gives the file a
\* modification time greater than any it had before, so a modification time
\* names one version of the content.
WriterContents ==
    ThreadContents \cup { [json |-> "object", ftype |-> "string", str |-> <<"b">>] }

\* Does the file hold a token that get_api_key accepts?
HoldsToken(f) == f.exists /\ f.readable /\ ReadToken(f.content) # None

\* The calls in progress note a file that is missing or holds no token.
NoteFile(f) ==
    [t \in Threads |-> ver.bad[t] \/ (thread[t].pc # "idle" /\ ~HoldsToken(f))]

WriterModifies ==
    \E m \in Mtimes, c \in WriterContents :
        /\ m > ver.clock
        /\ file' = [exists |-> TRUE, readable |-> TRUE, mtime |-> m, content |-> c]
        /\ ver' = [ver EXCEPT !.clock = m,
                              !.valid = IF HoldsToken(file') THEN m ELSE @,
                              !.bad = NoteFile(file')]
        /\ everPresent' = TRUE
        /\ UNCHANGED <<cachedToken, lastModifiedTime, thread, lock, writer, lastExit>>

WriterDeletes ==
    /\ file.exists
    /\ file' = AbsentFile
    /\ ver' = [ver EXCEPT !.bad = NoteFile(AbsentFile)]
    /\ UNCHANGED <<cachedToken, lastModifiedTime, thread, lock, writer, lastExit,
                   everPresent>>

\* What a step of thread t does to the record of versions: a call that
\* starts notes the latest version with a token and the state of the file,
\* a successful read notes the version read, line 102 caches that version,
\* and a return forgets the call.
Versions(t) ==
    LET started == thread[t].pc = "idle" /\ thread'[t].pc # "idle"
        returned == thread[t].pc # "idle" /\ thread'[t].pc = "idle"
        read == thread[t].pc = "open" /\ thread'[t].pc = "set_token"
        cached == thread[t].pc = "set_token"
    IN  ver' = [ver EXCEPT
                  !.start[t] = IF started THEN ver.valid ELSE IF returned THEN 0 ELSE @,
                  !.bad[t] = IF started THEN ~HoldsToken(file)
                             ELSE IF returned THEN FALSE ELSE @,
                  !.local[t] = IF read THEN file.mtime ELSE IF returned THEN 0 ELSE @,
                  !.cached = IF cached THEN ver.local[t] ELSE @]

InitWriter ==
    /\ file = AbsentFile
    /\ InitTokenManager
    /\ InitCaller
    /\ InitThreads
    /\ max_retries = 0
    /\ InitRunner
    /\ InitChildren
    /\ InitObs

NextWriter ==
    \/ \E t \in Threads : CheckExists(t) /\ Versions(t) /\ UNCHANGED <<restOfState, everPresent>>
    \/ \E t \in Threads : Acquire(t) /\ Versions(t) /\ UNCHANGED <<restOfState, everPresent>>
    \/ \E t \in Threads : Stat(t) /\ Versions(t) /\ UNCHANGED <<restOfState, everPresent>>
    \/ \E t \in Threads : Check(t) /\ Versions(t) /\ UNCHANGED <<restOfState, everPresent>>
    \/ \E t \in Threads : Open(t) /\ Versions(t) /\ UNCHANGED <<restOfState, everPresent>>
    \/ \E t \in Threads : SetToken(t) /\ Versions(t) /\ UNCHANGED <<restOfState, everPresent>>
    \/ \E t \in Threads : SetMtime(t) /\ Versions(t) /\ UNCHANGED <<restOfState, everPresent>>
    \/ WriterModifies /\ UNCHANGED restOfState
    \/ WriterDeletes /\ UNCHANGED restOfState

SpecWriter == InitWriter /\ [][NextWriter]_vars

\* ------------------------------------------------------------ ProxyRunner
Top == stack[Len(stack)]
InHandler == Len(stack) > 1
MainPc == stack[1].pc
Terminal == {"returned", "raised", "interrupted", "killed"}

SetTop(p, t) == stack' = [stack EXCEPT ![Len(stack)] = [pc |-> p, timer |-> t]]
AtMain(p) == Len(stack) = 1 /\ stack[1].pc = p

Alive(c) == childState[c] \in {"running", "dying"}

\* `self.process and self.process.poll() is None`
PollIsNone == process # NoProc /\ Alive(process)

\* run_with_retry: the head of the loop and the first shutdown check.
LoopCheck ==
    /\ AtMain("loop")
    /\ IF shutdown_requested THEN SetTop("returned", 0) ELSE SetTop("install_int", 0)
    /\ UNCHANGED <<authVars, callerVars, childVars, obsVars>>
    /\ UNCHANGED <<max_retries, attempt, installed, api_key, process, running,
                   shutdown_requested, exc>>

\* run_proxy: signal.signal(SIGINT, ...), then signal.signal(SIGTERM, ...).
InstallSigint ==
    /\ AtMain("install_int")
    /\ installed' = installed \cup {"SIGINT"}
    /\ SetTop("install_term", 0)
    /\ UNCHANGED <<authVars, callerVars, childVars, obsVars>>
    /\ UNCHANGED <<max_retries, attempt, api_key, process, running,
                   shutdown_requested, exc>>

InstallSigterm ==
    /\ AtMain("install_term")
    /\ installed' = installed \cup {"SIGTERM"}
    /\ SetTop("get_key", 0)
    /\ UNCHANGED <<authVars, callerVars, childVars, obsVars>>
    /\ UNCHANGED <<max_retries, attempt, api_key, process, running,
                   shutdown_requested, exc>>

\* run_proxy: api_key = get_api_key(); sys.exit(1) when there is none.  The
\* exit is raised before the try block, so no cleanup runs.
NoKeyNever(k) == FALSE
NoKey(k) == k = None

GetKey ==
    LET r == get_api_key(file, cachedToken, lastModifiedTime) IN
    /\ AtMain("get_key")
    /\ cachedToken' = r.token
    /\ lastModifiedTime' = r.mtime
    /\ keys' = [keys EXCEPT ![attempt] = r.ret]
    /\ api_key' = r.ret
    /\ IF NoKey(r.ret)
       THEN /\ exc' = <<1>>
            /\ outcome' = [outcome EXCEPT ![attempt] = "nokey"]
            /\ SetTop("dispatch", 0)
       ELSE /\ SetTop("popen", 0)
            /\ UNCHANGED <<exc, outcome>>
    /\ UNCHANGED <<file, callerVars, childVars>>
    /\ UNCHANGED <<max_retries, attempt, installed, process, running, shutdown_requested>>
    /\ UNCHANGED <<spawnCount, sleepCount, sigCount, sinceSig, atSig, sigsAfterMid,
                   sigAtSpawn, everPresent>>

\* run_proxy: subprocess.Popen(cmd, env=current_env).  Either the child is
\* started, or Popen raises (the executable is missing), which the broad
\* handler turns into sys.exit(1).
PopenEnvFirstKey(k) == keys[0]
PopenEnv(k) == k

Popen ==
    /\ AtMain("popen")
    /\ \/ /\ childState' = [childState EXCEPT ![attempt] = "running"]
          /\ childEnv' = [childEnv EXCEPT ![attempt] = PopenEnv(api_key)]
          /\ spawnCount' = spawnCount + 1
          /\ outcome' = [outcome EXCEPT ![attempt] = "child"]
          /\ SetTop("assign", 0)
          /\ UNCHANGED exc
       \/ /\ outcome' = [outcome EXCEPT ![attempt] = "nospawn"]
          /\ exc' = <<1>>
          /\ SetTop("finally", 0)
          /\ UNCHANGED <<childState, childEnv, spawnCount>>
    /\ UNCHANGED <<authVars, callerVars, childCode, termCount, killCount, termAge>>
    /\ UNCHANGED <<max_retries, attempt, installed, api_key, process, running,
                   shutdown_requested>>
    /\ UNCHANGED <<keys, sleepCount, sigCount, sinceSig, atSig, sigsAfterMid,
                   sigAtSpawn, everPresent>>

\* run_proxy: self.process = <the new Popen object>; self.running = True.
Assign ==
    /\ AtMain("assign")
    /\ process' = attempt
    /\ running' = TRUE
    /\ SetTop("wait", 0)
    /\ UNCHANGED <<authVars, callerVars, childVars, obsVars>>
    /\ UNCHANGED <<max_retries, attempt, installed, api_key, shutdown_requested, exc>>

\* run_proxy: return_code = self.process.wait(); sys.exit(return_code) when
\* it is not 0.
ExitCodeOne(code) == IF code # 0 THEN <<1>> ELSE <<>>
ExitCodeOf(code) == IF code # 0 THEN <<code>> ELSE <<>>

WaitAbandonsChild ==
    /\ AtMain("wait")
    /\ exc' = <<1>>
    /\ SetTop("dispatch", 0)
    /\ UNCHANGED <<authVars, callerVars, childVars, obsVars>>
    /\ UNCHANGED <<max_retries, attempt, installed, api_key, process, running,
                   shutdown_requested>>

WaitReturns ==
    /\ AtMain("wait")
    /\ childState[process] = "exited"
    /\ exc' = ExitCodeOf(childCode[process])
    /\ SetTop("finally", 0)
    /\ UNCHANGED <<authVars, callerVars, childVars, obsVars>>
    /\ UNCHANGED <<max_retries, attempt, installed, api_key, process, running,
                   shutdown_requested>>

\* run_proxy, finally: self.running = False.
Finally ==
    /\ AtMain("finally")
    /\ running' = FALSE
    /\ SetTop("cleanup", 0)
    /\ UNCHANGED <<authVars, callerVars, childVars, obsVars>>
    /\ UNCHANGED <<max_retries, attempt, installed, api_key, process,
                   shutdown_requested, exc>>

\* Where control goes when the cleanup of the executing context is over: a
\* handler invocation returns to what it interrupted, run_proxy leaves with
\* its result or its SystemExit.
LeaveCleanup ==
    IF InHandler
    THEN stack' = SubSeq(stack, 1, Len(stack) - 1)
    ELSE SetTop("dispatch", 0)

\* subprocess.Popen is taken as documented: poll() is None exactly while the
\* child has not exited, terminate() and kill() signal a child that has not
\* exited, wait() returns once it has, and wait(timeout=5) returns when it
\* exits within 5 time units and raises TimeoutExpired otherwise.
\*
\* The cleanup shared by run_proxy's finally block and _signal_handler:
\*   if self.process and self.process.poll() is None: self.process.terminate()
PollAndTerminate ==
    /\ Top.pc = "cleanup"
    /\ IF PollIsNone
       THEN /\ termCount' = [termCount EXCEPT ![process] = @ + 1]
            /\ termAge' = [termAge EXCEPT ![process] = 0]
            /\ SetTop("grace", GraceTimeout)
       ELSE /\ LeaveCleanup
            /\ UNCHANGED <<termCount, termAge>>
    /\ UNCHANGED <<authVars, callerVars, obsVars>>
    /\ UNCHANGED <<childState, childCode, childEnv, killCount>>
    /\ UNCHANGED <<max_retries, attempt, installed, api_key, process, running,
                   shutdown_requested, exc>>

\*   self.process.wait(timeout=5) returns: the child has exited.
GraceWaitReturns ==
    /\ Top.pc = "grace"
    /\ childState[process] = "exited"
    /\ LeaveCleanup
    /\ UNCHANGED <<authVars, callerVars, childVars, obsVars>>
    /\ UNCHANGED <<max_retries, attempt, installed, api_key, process, running,
                   shutdown_requested, exc>>

\*   except subprocess.TimeoutExpired: self.process.kill()
\* kill() signals a child that has not exited and does nothing otherwise.
TimeoutExpiredAtOnce == TRUE
TimeoutExpired == Top.timer = 0

GraceExpires ==
    /\ Top.pc = "grace"
    /\ TimeoutExpired
    /\ Alive(process)
    /\ killCount' = [killCount EXCEPT ![process] = @ + 1]
    /\ childState' = [childState EXCEPT ![process] = "dying"]
    /\ LeaveCleanup
    /\ UNCHANGED <<authVars, callerVars, obsVars>>
    /\ UNCHANGED <<childCode, childEnv, termCount, termAge>>
    /\ UNCHANGED <<max_retries, attempt, installed, api_key, process, running,
                   shutdown_requested, exc>>

\* run_with_retry: what follows run_proxy().  A normal return ends the loop;
\* a SystemExit is examined: code 0, shutdown requested, retries left, or
\* exhausted.
NormalExitOnlyCodeZero(e) == e # <<>> /\ e[1] = 0
NormalExit(e) == e = <<>> \/ e[1] = 0

ShutdownSeen == shutdown_requested

RetriesLeftOffByOne == attempt + 1 < max_retries
RetriesLeft == attempt < max_retries

Dispatch ==
    /\ AtMain("dispatch")
    /\ IF NormalExit(exc) THEN SetTop("returned", 0) /\ UNCHANGED sleepCount
       ELSE IF ShutdownSeen THEN SetTop("returned", 0) /\ UNCHANGED sleepCount
       ELSE IF RetriesLeft
            THEN SetTop("sleep", RetryDelay) /\ sleepCount' = sleepCount + 1
            ELSE SetTop("reraise", 0) /\ UNCHANGED sleepCount
    /\ UNCHANGED <<authVars, callerVars, childVars>>
    /\ UNCHANGED <<max_retries, attempt, installed, api_key, process, running,
                   shutdown_requested, exc>>
    /\ UNCHANGED <<outcome, keys, spawnCount, sigCount, sinceSig, atSig, sigsAfterMid,
                   sigAtSpawn, everPresent>>

\* run_with_retry: time.sleep(retry_delay) is over; the next iteration.
SleepDone ==
    /\ AtMain("sleep")
    /\ Top.timer = 0
    /\ attempt' = attempt + 1
    /\ SetTop("loop", 0)
    /\ UNCHANGED <<authVars, callerVars, childVars, obsVars>>
    /\ UNCHANGED <<max_retries, installed, api_key, process, running,
                   shutdown_requested, exc>>

\* run_with_retry: raise.  The SystemExit leaves run_with_retry and main().
Reraise ==
    /\ AtMain("reraise")
    /\ SetTop("raised", 0)
    /\ UNCHANGED <<authVars, callerVars, childVars, obsVars>>
    /\ UNCHANGED <<max_retries, attempt, installed, api_key, process, running,
                   shutdown_requested, exc>>

\* ------------------------------------------------------------ environment
\* Is the primary thread blocked on its running child, no handler running?
BlockedOnChild == AtMain("wait") /\ childState[process] = "running"

\* A SIGINT or SIGTERM is delivered to the supervisor.  A signal routed to
\* _signal_handler starts an invocation of it on top of whatever is
\* executing (Python runs handlers in the primary thread, and a handler can
\* itself be interrupted); the invocation begins with
\*   self.shutdown_requested = True; self.running = False
\* which nothing else can separate from the delivery, as the interrupted
\* code does not run until the handler returns.  Before signal.signal() has run, SIGTERM kills
\* the process and SIGINT raises KeyboardInterrupt, which run_with_retry
\* catches only inside its try block.
Signal ==
    \E sig \in {"SIGINT", "SIGTERM"} :
        /\ sigCount < MaxSignals
        /\ MainPc \notin Terminal
        /\ stack' = IF sig \in installed
                        THEN Append(stack, [pc |-> "cleanup", timer |-> 0])
                    ELSE IF sig = "SIGTERM"
                        THEN << [pc |-> "killed", timer |-> 0] >>
                    ELSE IF MainPc = "loop"
                        THEN << [pc |-> "interrupted", timer |-> 0] >>
                        ELSE << [pc |-> "returned", timer |-> 0] >>
        /\ sigCount' = sigCount + 1
        /\ sinceSig' = IF sinceSig < 0 /\ BlockedOnChild THEN 0 ELSE sinceSig
        /\ atSig' = IF sinceSig < 0 /\ BlockedOnChild
                     THEN <<spawnCount, sleepCount>> ELSE atSig
        /\ sigsAfterMid' = IF sinceSig >= 0 THEN sigsAfterMid + 1 ELSE sigsAfterMid
        /\ sigAtSpawn' = (sigAtSpawn \/ (sig \in installed /\ MainPc \in {"popen", "assign"}))
        /\ shutdown_requested' = (shutdown_requested \/ sig \in installed)
        /\ running' = (running /\ sig \notin installed)
        /\ UNCHANGED <<authVars, callerVars, childVars>>
        /\ UNCHANGED <<max_retries, attempt, installed, api_key, process, exc>>
        /\ UNCHANGED <<outcome, keys, spawnCount, sleepCount, everPresent>>

\* The child exits by itself: with any code while it has not been asked to
\* stop, and after a SIGTERM either cleanly or as terminated by the signal.
NaturalCodes == {0, 1, 2}

ChildExits ==
    \E c \in Attempts :
        /\ childState[c] = "running"
        /\ \E code \in IF termCount[c] = 0 THEN NaturalCodes ELSE {0, 0 - SIGTERM} :
               childCode' = [childCode EXCEPT ![c] = code]
        /\ childState' = [childState EXCEPT ![c] = "exited"]
        /\ termAge' = [termAge EXCEPT ![c] = 0 - 1]
        /\ UNCHANGED <<authVars, callerVars, runnerVars, obsVars>>
        /\ UNCHANGED <<childEnv, termCount, killCount>>

\* SIGKILL cannot be caught: a killed child is gone before time advances.
ChildKilled ==
    \E c \in Attempts :
        /\ childState[c] = "dying"
        /\ childCode' = [childCode EXCEPT ![c] = 0 - SIGKILL]
        /\ childState' = [childState EXCEPT ![c] = "exited"]
        /\ termAge' = [termAge EXCEPT ![c] = 0 - 1]
        /\ UNCHANGED <<authVars, callerVars, runnerVars, obsVars>>
        /\ UNCHANGED <<childEnv, termCount, killCount>>

\* Time advances by one unit.  It can only while the executing context is
\* blocked: in wait() on a running child, in a grace wait that has neither
\* expired nor seen the child exit, or in an unfinished retry sleep.
Blocked ==
    \/ BlockedOnChild
    \/ Top.pc = "grace" /\ childState[process] = "running" /\ Top.timer > 0
    \/ Top.pc = "sleep" /\ Top.timer > 0

Tick ==
    /\ Blocked
    /\ \A c \in Attempts : childState[c] # "dying"
    /\ stack' = [i \in DOMAIN stack |->
                    IF stack[i].pc \in {"grace", "sleep"} /\ stack[i].timer > 0
                    THEN [stack[i] EXCEPT !.timer = @ - 1]
                    ELSE stack[i]]
    /\ sinceSig' = IF sinceSig >= 0 /\ sinceSig <= GraceTimeout
                   THEN sinceSig + 1 ELSE sinceSig
    /\ termAge' = [c \in Attempts |->
                      IF termAge[c] >= 0 /\ termAge[c] < GraceTimeout
                      THEN termAge[c] + 1 ELSE termAge[c]]
    /\ UNCHANGED <<authVars, callerVars>>
    /\ UNCHANGED <<childState, childCode, childEnv, termCount, killCount>>
    /\ UNCHANGED <<max_retries, attempt, installed, api_key, process, running,
                   shutdown_requested, exc>>
    /\ UNCHANGED <<outcome, keys, spawnCount, sleepCount, sigCount, atSig,
                   sigsAfterMid,
                   sigAtSpawn, everPresent>>

\* The credential file is only ever looked at by get_api_key, so its changes
\* are taken at the point where run_proxy is about to call it.
FileChangeBeforeGetKey ==
    /\ AtMain("get_key")
    /\ FileChange(RunFiles)
    /\ UNCHANGED <<callerVars, runnerVars, childVars>>
    /\ UNCHANGED <<outcome, keys, spawnCount, sleepCount, sigCount, sinceSig, atSig, sigsAfterMid,
                   sigAtSpawn>>

Init ==
    /\ file \in RunFiles
    /\ InitTokenManager
    /\ InitCaller
    /\ InitThreads
    /\ max_retries \in 0..MaxRetriesBound
    /\ InitRunner
    /\ InitChildren
    /\ InitObs

Next ==
    \/ LoopCheck
    \/ InstallSigint
    \/ InstallSigterm
    \/ GetKey
    \/ Popen
    \/ Assign
    \/ WaitReturns
    \/ Finally
    \/ PollAndTerminate
    \/ GraceWaitReturns
    \/ GraceExpires
    \/ Dispatch
    \/ SleepDone
    \/ Reraise
    \/ Signal
    \/ ChildExits
    \/ ChildKilled
    \/ Tick
    \/ FileChangeBeforeGetKey

Spec == Init /\ [][Next]_vars

\* ---------------------------------------------------------------- claims
\* A token string the claims call valid: a string that is not blank.
ValidTokenFile(f) ==
    /\ f.exists
    /\ f.readable
    /\ f.content.json = "object"
    /\ f.content.ftype = "string"
    /\ Strip(f.content.str) # <<>>

\* What a call that reads the file is expected to return.
FreshToken(f) == IF ValidTokenFile(f) THEN f.content.str ELSE None

\* C3 (as claimed): after any file changes and earlier calls, a call of
\* get_api_key returns the file's current access_token if and only if the
\* file exists, parses and holds a non-empty string token; otherwise None.
\* Stated on the state right after a call, the file not touched since.
C3_ReturnsCurrentFileToken ==
    (calls > 0 /\ ~modSince) => result = FreshToken(file)

\* C3 (amended): a call returns None when the file does not exist; returns
\* the cached token, whatever the file now holds, when a token is cached and
\* the file's modification time is not newer than the cached one; and
\* otherwise returns the file's current token if and only if the file is
\* readable, parses as a JSON object and holds a non-blank string token.
C3_ReturnsCachedOrFileToken ==
    [][ CallGetApiKey =>
          result' = IF ~file.exists THEN None
                    ELSE IF cachedToken # None /\ file.mtime <= lastModifiedTime
                         THEN cachedToken
                         ELSE FreshToken(file) ]_vars

\* C3 witness: a call has just returned a cached token that the file no
\* longer holds.
C3_Witness ==
    /\ calls > 0
    /\ ~modSince
    /\ file.exists
    /\ result # None
    /\ result # FreshToken(file)

\* C4 (as claimed): two consecutive calls with no modification of the file in
\* between return the same result, and the content is parsed at most once
\* across the two calls, for any content and any cache state.
C4_IdempotentParsedOnce ==
    (calls = 2 /\ ~modBetween) =>
        /\ prevResult = result
        /\ ~(prevParsed /\ parsed)

\* C4 (amended): two consecutive calls with no modification in between return
\* the same result, and when that result is a token the content is parsed at
\* most once across the two calls (a file that yields no token is parsed
\* again by every call).
C4_IdempotentTokenParsedOnce ==
    (calls = 2 /\ ~modBetween) =>
        /\ prevResult = result
        /\ (result # None => ~(prevParsed /\ parsed))

\* C4 witness: the first of two calls parsed the file and cached its token,
\* the second returned the same token without parsing.
C4_Witness ==
    /\ calls = 2
    /\ ~modBetween
    /\ prevParsed
    /\ ~parsed
    /\ result # None
    /\ prevResult = result

\* C5: once a token is cached, replacing the file's content by a different
\* valid token with a modification time past the cached one makes the next
\* call parse the file, return the new token and cache it with the new time.
C5_RefreshOnNewerMtime ==
    [][ ( /\ CallGetApiKey
          /\ cachedToken # None
          /\ ValidTokenFile(file)
          /\ file.content.str # cachedToken
          /\ file.mtime > lastModifiedTime )
        => ( /\ parsed'
             /\ result' = file.content.str
             /\ cachedToken' = file.content.str
             /\ lastModifiedTime' = file.mtime ) ]_vars

\* C5 witness: a call returned one token, the file was then modified, and
\* the next call parsed it and returned and cached a different token with a
\* later modification time.
C5_Witness ==
    /\ calls = 2
    /\ modBetween
    /\ ~modSince
    /\ prevResult # None
    /\ result # None
    /\ result # prevResult
    /\ parsed
    /\ cachedToken = result
    /\ lastModifiedTime = file.mtime
    /\ lastModifiedTime > 1

\* The run is over: run_with_retry has returned or raised, or the process
\* was ended by a signal that no handler caught.
Done == MainPc \in Terminal

\* Every attempt made so far spawned a child, and that child exited non-zero.
EveryAttemptChildFailed ==
    \A a \in 0..attempt :
        /\ outcome[a] = "child"
        /\ childState[a] = "exited"
        /\ childCode[a] # 0

\* C1: with max_retries = N and no shutdown signal, if every attempt fails
\* by spawning a child that exits non-zero, run_with_retry spawns exactly
\* N+1 children, sleeps exactly N times and ends by raising.
C1_ExhaustsRetries ==
    (Done /\ sigCount = 0 /\ EveryAttemptChildFailed) =>
        /\ MainPc = "raised"
        /\ spawnCount = max_retries + 1
        /\ sleepCount = max_retries

\* C1 witness: a run with at least one retry has raised after all of its
\* attempts spawned a child that failed.
C1_Witness ==
    /\ MainPc = "raised"
    /\ sigCount = 0
    /\ max_retries >= 1
    /\ EveryAttemptChildFailed
    /\ spawnCount = max_retries + 1

\* C2: a shutdown signal delivered while the child runs and the primary
\* thread is blocked waiting for it makes run_with_retry return within one
\* grace period of that signal, with no retry sleep and no further spawn.
\* (sinceSig passes GraceTimeout only if the run is not over by then.)
C2_ReturnsWithinGrace ==
    sinceSig >= 0 =>
        /\ sinceSig <= GraceTimeout
        /\ spawnCount = atSig[1]
        /\ sleepCount = atSig[2]
        /\ MainPc \notin {"raised", "interrupted", "killed"}

\* C6: an attempt in which get_api_key returned no token spawns no child
\* (every child was spawned in an attempt whose get_api_key returned a
\* token); and if the credential file is absent for the whole run no child
\* is spawned at all, and the run, if no shutdown signal ends it, ends by
\* raising SystemExit with status 1.
C6_NoKeyNoSpawn ==
    /\ \A a \in Attempts : childState[a] # "none" => keys[a] # None
    /\ ~everPresent => spawnCount = 0
    /\ (~everPresent /\ Done /\ sigCount = 0) => (MainPc = "raised" /\ exc = <<1>>)

\* C6 witness: a run with a retry is over, the file never existed, every
\* attempt ended for want of a key, and the exit status is 1.
C6_Witness ==
    /\ ~everPresent
    /\ MainPc = "raised"
    /\ max_retries >= 1
    /\ \A a \in 0..max_retries : outcome[a] = "nokey"
    /\ exc = <<1>>
    /\ spawnCount = 0

\* C7: if the child of the first attempt exits with code 0, run_with_retry
\* returns normally after exactly one spawn, with no retry sleep and no
\* second attempt, whatever max_retries is.
FirstChildExitedZero ==
    /\ outcome[0] = "child"
    /\ childState[0] = "exited"
    /\ childCode[0] = 0

C7_CleanExitReturns ==
    FirstChildExitedZero =>
        /\ spawnCount = 1
        /\ sleepCount = 0
        /\ attempt = 0
        /\ MainPc \notin {"sleep", "reraise", "raised", "interrupted", "killed"}
        /\ Done => MainPc = "returned"

\* C7 witness: a run that had retries left has returned after its first
\* child exited with code 0, no signal having been delivered.
C7_Witness ==
    /\ FirstChildExitedZero
    /\ MainPc = "returned"
    /\ max_retries >= 1
    /\ sigCount = 0

\* C8: when retries are exhausted without a shutdown request, the status
\* run_with_retry propagates is the exit code of the last attempt's child if
\* that child ran, and 1 if the last attempt failed in credential retrieval
\* or in spawning; it is the status of the last attempt, not of an earlier.
C8_LastAttemptStatus ==
    (MainPc = "raised" /\ ~shutdown_requested) =>
        /\ attempt = max_retries
        /\ outcome[attempt] # "none"
        /\ exc = IF outcome[attempt] = "child"
                 THEN <<childCode[attempt]>>
                 ELSE <<1>>
        /\ exc # <<0>>

\* C8 witness: retries are exhausted, the last child exited with code 2, an
\* earlier attempt failed otherwise, and status 2 is propagated.
C8_Witness ==
    /\ MainPc = "raised"
    /\ ~shutdown_requested
    /\ max_retries >= 1
    /\ outcome[attempt] = "child"
    /\ childCode[attempt] = 2
    /\ (outcome[0] # "child" \/ childCode[0] # 2)
    /\ exc = <<2>>

\* C9: once a shutdown signal has been delivered to _signal_handler before
\* run_with_retry finishes, run_with_retry returns normally and never
\* propagates a failure, also when the signal arrives on the final attempt.
C9_ShutdownReturnsNormally ==
    (shutdown_requested /\ MainPc \in {"returned", "raised", "interrupted"})
        => MainPc = "returned"

\* C10: at most one child started by the supervisor is alive at any time.
C10_AtMostOneChildAlive ==
    Cardinality({c \in Attempts : childState[c] \in {"running", "dying"}}) <= 1

\* C10 witness: the child of a second attempt is running, the child of the
\* first attempt having exited.
C10_Witness ==
    /\ childState[0] = "exited"
    /\ childState[1] = "running"

\* C11: if the file exists, a token is cached and the file's modification
\* time is less than or equal to the cached one (also strictly less),
\* get_api_key returns the cached token, does not parse the content and
\* leaves both cached fields unchanged.
C11_CacheHitFrame ==
    [][ ( /\ CallGetApiKey
          /\ file.exists
          /\ cachedToken # None
          /\ file.mtime <= lastModifiedTime )
        => ( /\ result' = cachedToken
             /\ ~parsed'
             /\ cachedToken' = cachedToken
             /\ lastModifiedTime' = lastModifiedTime ) ]_vars

\* C11 witness: a call has just returned the cached token without parsing,
\* the file being strictly older than the cache and holding something else.
C11_Witness ==
    /\ calls > 0
    /\ ~modSince
    /\ file.exists
    /\ cachedToken # None
    /\ file.mtime < lastModifiedTime
    /\ result = cachedToken
    /\ ~parsed
    /\ FreshToken(file) # cachedToken

\* The cases in which a call fails: the file is missing, or the call has to
\* read it (no cache hit) and it is unreadable or holds no valid token.
CallFails ==
    \/ ~file.exists
    \/ /\ ~(cachedToken # None /\ file.mtime <= lastModifiedTime)
       /\ ~ValidTokenFile(file)

\* C12: every call that fails returns None and leaves the cached token and
\* the cached modification time as they were; and the cached token, once
\* non-null, is always a non-blank string that was parsed from a valid file:
\* it only ever changes to the token of the valid file a call has just read.
C12_FailureKeepsCache ==
    [][ /\ (CallGetApiKey /\ CallFails) =>
               /\ result' = None
               /\ cachedToken' = cachedToken
               /\ lastModifiedTime' = lastModifiedTime
        /\ (CallGetApiKey /\ result' = None) =>
               /\ cachedToken' = cachedToken
               /\ lastModifiedTime' = lastModifiedTime
        /\ cachedToken' # cachedToken =>
               /\ ValidTokenFile(file)
               /\ cachedToken' = file.content.str
               /\ Strip(cachedToken') # <<>>
               /\ lastModifiedTime' = file.mtime ]_vars

\* C12 witness: a call has just parsed a file newer than the cache, found no
\* valid token in it and returned None, and the earlier token is still
\* cached with its modification time.
C12_Witness ==
    /\ calls = 2
    /\ ~modSince
    /\ result = None
    /\ parsed
    /\ prevResult # None
    /\ cachedToken = prevResult
    /\ file.mtime > lastModifiedTime

\* The two cached fields come from one and the same completed refresh.
Consistent ==
    /\ writer[1] = writer[2]
    /\ writer[1] # NoThread => thread[writer[1]].pc # "set_mtime"

\* C13: with several threads calling get_api_key, the cached token and the
\* cached modification time are read and written only by the one thread
\* holding the lock, and are written together: a thread making the cache
\* test, and anyone looking while the lock is free, finds a token and a
\* modification time that come from the same refresh.
C13_CacheAccessUnderLock ==
    /\ Cardinality(lock) <= 1
    /\ \A t \in Threads : thread[t].pc \in Critical => t \in lock
    /\ \A t \in Threads : thread[t].pc = "check" => Consistent
    /\ lock = {} => Consistent

\* C13 witness: a thread is between its two writes, so the cache holds its
\* new token with the modification time of an earlier refresh, while
\* another thread is waiting for the lock.
C13_Witness ==
    \E t, u \in Threads :
        /\ t # u
        /\ thread[t].pc = "set_mtime"
        /\ thread[u].pc = "acquire"
        /\ lock = {t}
        /\ writer[2] # NoThread
        /\ cachedToken = thread[t].token
        /\ lastModifiedTime # thread[t].mtime

\* C14: the lock is released on every way out of the call, by return or by
\* exception: only a thread inside the `with` block holds it, so it is free
\* whenever no call is in progress; and every call that has started
\* eventually returns.
C14_LockReleasedCallsReturn ==
    /\ [](\A t \in Threads : t \in lock => thread[t].pc \in Critical)
    /\ \A t \in Threads : (thread[t].pc # "idle") ~> (thread[t].pc = "idle")

\* C14 witness: a call has just left the `with` block through an exception
\* handler, no call is in progress and the lock is free.
C14_Witness ==
    /\ lastExit = "error"
    /\ \A t \in Threads : thread[t].pc = "idle"
    /\ lock = {}
    /\ cachedToken # None

\* Is the primary thread inside run_proxy?
RunProxyExecuting ==
    MainPc \in {"install_int", "install_term", "get_key", "popen", "assign",
                "wait", "finally", "cleanup", "grace"}

\* C15: ProxyRunner.process is None before the first spawn and is cleared
\* when the monitoring of each attempt finishes: it is None whenever
\* run_proxy is not executing.
C15_ProcessClearedAfterAttempt == ~RunProxyExecuting => process = NoProc

\* C16: once shutdown_requested is true it stays true, and no child is
\* spawned in any later step.
C16_NoSpawnAfterShutdown ==
    [][ shutdown_requested =>
            /\ shutdown_requested'
            /\ spawnCount' = spawnCount ]_vars

\* C17: at most one terminate request is ever issued for a child.
C17_AtMostOneTerminate == \A c \in Attempts : termCount[c] <= 1

\* C18: in the handler and in run_proxy's cleanup alike, kill is issued only
\* after terminate and after the child has lived through the whole grace
\* wait of GraceTimeout units without exiting; a child that has exited, in
\* the grace period or before, is sent neither terminate nor kill.
C18_KillOnlyAfterGrace ==
    [][ \A c \in Attempts :
          /\ killCount'[c] # killCount[c] =>
                 /\ termCount[c] > 0
                 /\ termAge[c] = GraceTimeout
                 /\ childState[c] # "exited"
          /\ childState[c] = "exited" =>
                 /\ termCount'[c] = termCount[c]
                 /\ killCount'[c] = killCount[c] ]_vars

\* C18 witness: a child that was asked to terminate, outlived the grace wait
\* and has just been killed.
C18_Witness ==
    \E c \in Attempts :
        /\ childState[c] = "dying"
        /\ termCount[c] = 1
        /\ killCount[c] = 1
        /\ termAge[c] = GraceTimeout

\* C19: no child is left behind: in every state in which run_with_retry has
\* returned or has let a failure propagate, every child that was spawned
\* has exited or has been sent a kill, also when a signal was handled just
\* before or just after the spawn.
C19_NoChildLeftBehind ==
    Done => \A c \in Attempts : Alive(c) => killCount[c] > 0

\* C19 witness: a signal was handled around the spawn, too early for the
\* handler to find the child, and run_with_retry has ended only after that
\* child exited by itself.
C19_Witness ==
    /\ Done
    /\ sigAtSpawn
    /\ spawnCount = 1
    /\ childState[0] = "exited"
    /\ termCount[0] = 0
    /\ killCount[0] = 0

\* C20 as stated: every attempt calls get_api_key anew and its child gets
\* the value returned by that call, so that the token a child is started
\* with is the one the credential file holds at that attempt, also when the
\* file was rewritten since an earlier attempt.
C20_ChildGetsFileToken ==
    [][ spawnCount' > spawnCount =>
            /\ keys[attempt] # None
            /\ childEnv'[attempt] = keys[attempt]
            /\ childEnv'[attempt] = file.content.str ]_vars

\* C20, amended: every child was started with the value returned by the
\* get_api_key call of its own attempt; and that call returns the token the
\* file holds at that attempt whenever no token is cached yet or the file's
\* modification time is newer than the cached one.
C20_ChildGetsAttemptsKey ==
    [][ /\ \A a \in Attempts :
               childState'[a] # "none" =>
                   /\ keys'[a] # None
                   /\ childEnv'[a] = keys'[a]
        /\ ( /\ GetKey
             /\ ValidTokenFile(file)
             /\ (cachedToken = None \/ file.mtime > lastModifiedTime) )
           => keys'[attempt] = file.content.str ]_vars

\* C20 witness: the file was rewritten with a newer modification time
\* between two attempts, and the second child was started with the new
\* token, not with the first child's.
C20_Witness ==
    /\ childState[0] # "none"
    /\ childState[1] # "none"
    /\ childEnv[1] # childEnv[0]
    /\ childEnv[1] = keys[1]
    /\ childEnv[1] = file.content.str

\* C21: while a writer rewrites the file with strictly increasing
\* modification times, the cached modification time is never newer than the
\* version the cached token was parsed from; so a call that returns a token
\* returns that of the latest version with a token written before the call
\* started, or of a later version, never of an older one; and a call
\* returns None only if the file was missing or held no token at some point
\* of the call.
C21_NeverAnOlderToken ==
    [][ /\ cachedToken' # None => lastModifiedTime' <= ver'.cached
        /\ \A t \in Threads :
             /\ (thread[t].pc = "check" /\ thread'[t].pc = "idle") =>
                    /\ cachedToken # None
                    /\ ver.cached >= ver.start[t]
             /\ (thread[t].pc = "set_mtime" /\ thread'[t].pc = "idle") =>
                    ver.local[t] >= ver.start[t]
             /\ (thread[t].pc \in {"stat", "open"} /\ thread'[t].pc = "idle") =>
                    ver.bad[t] ]_vars

\* C21 witness: the file was rewritten between line 79 and line 88 of a
\* call, so the cache holds the token of the newer version under the
\* modification time of the older one; a later call has started after that
\* and is at the cache test with the newer modification time.
C21_Witness ==
    \E t \in Threads :
        /\ cachedToken # None
        /\ lastModifiedTime < ver.cached
        /\ thread[t].pc = "check"
        /\ ver.start[t] = ver.cached
        /\ thread[t].mtime > lastModifiedTime

====
